---- MODULE Spec2Model ----
(***************************************************************************)
(* Slow-control monitor of the Exotic Atom Lab: the startup wiring, the    *)
(* poll loop and the shutdown handler of monitor.py, the recovery routine  *)
(* reconnect_device and the three device drivers of Devices.py, and the    *)
(* sink entry point log_reading of Database.py.                            *)
(*                                                                         *)
(* The serial library and the USB hardware are the environment: a port is  *)
(* present or unplugged; unplugging makes every handle opened on the port  *)
(* stale; an operation on a stale handle raises an OS error whose text is  *)
(* "Access is denied" (Windows) or "Input/output error" (POSIX); an        *)
(* operation on a closed handle raises "Attempting to use a port that is   *)
(* not open"; close() of a stale handle may raise and then leaves is_open  *)
(* set.                                                                    *)
(***************************************************************************)
EXTENDS Integers, Sequences, FiniteSets, TLC

\* ------------------------------------------------------------------ bounds
NumDevices == 3
MaxUnplugs == 2
MaxLines == 2
BAUD == 9600

Ports == {"ttyUSB0", "ttyUSB1", "ttyUSB2"}
Kinds == {"PfeifferGauge", "PfeifferTurboPump", "KeithleyMeter"}
Names == 1..NumDevices

\* The wirings of the three blocks of monitor.py, up to a renaming of the
\* ports: the names come in the order of monitor.py (ttyUSB1, ttyUSB0,
\* ttyUSB2), and <<"ttyUSB1", "ttyUSB0", "ttyUSB2">> is the wiring as shipped.
Wirings ==
  { f \in [Names -> Ports] :
      /\ f[1] = "ttyUSB1"
      /\ f[2] \in {"ttyUSB1", "ttyUSB0"}
      /\ f[3] = "ttyUSB2" => f[2] = "ttyUSB0" }

\* ------------------------------------------------------------------- state
VARIABLES
  pc,           \* position of the single thread of monitor.py
  kind,         \* wiring: class of each configured device
  com,          \* wiring: port path of each configured device
  devices,      \* the list `devices`: records [name, ser]
  conns,        \* every serial.Serial object created so far
  hw,           \* environment: whether the port's USB device is present
  unplugs,      \* environment: number of unplug events so far
  idx,          \* loop variable: position in `devices` (or wiring block)
  data,         \* the dict returned by the latest read_data()
  exc,          \* the exception raised inside the latest read_data()
  rec,          \* locals of reconnect_device
  closed_ports, \* the set `closed_ports` of the shutdown handler
  closeCalls,   \* close() calls made by the shutdown handler, per object
  seen,         \* per poll cycle: what happened to each device so far
  cycleErr,     \* per poll cycle: some read returned no value
  sink,         \* the latest call of db.log_reading in this iteration
  issued,       \* parameters written to the bus by the latest read_data()
  pending,      \* device whose IOFault status has not been recovered yet
  drv           \* one driver call looked at on its own: its input and result

progvars == <<pc, kind, com, devices, conns, hw, unplugs, idx, data, exc, rec,
              closed_ports, closeCalls, seen, cycleErr, sink, issued, pending>>

vars == <<progvars, drv>>

NoData == [value |-> "none", unit |-> "", status |-> "", detail |-> ""]
NoRec ==
  [crashed |-> 0, port |-> "", baud |-> 0, dead |-> 0, new |-> 0,
   tried |-> FALSE]
NoLine == [addr |-> 0, action |-> <<>>, param |-> 0, payload |-> <<>>]
NoDrv ==
  [op |-> "none", at |-> "idle", address |-> 0, param |-> 0, frame |-> <<>>,
   text |-> <<>>, line |-> NoLine, prev |-> NoLine, elapsed |-> 0, lines |-> 0,
   result |-> [value |-> <<>>, unit |-> "", status |-> "", detail |-> <<>>]]
NoCall == [device |-> 0, value |-> "none", written |-> FALSE]
Unseen == [n \in Names |-> "unread"]

\* ------------------------------------------------------------ serial layer
\* serial.Serial(port=..., baudrate=...): a new open handle.
NewConn(port, baud) ==
  [port |-> port, baudrate |-> baud, is_open |-> TRUE, stale |-> FALSE]

OpenHandleOn(p) == \E c \in 1..Len(conns) : conns[c].port = p /\ conns[c].is_open

\* open_serial_port: raises when the device node is absent; with another
\* handle still open on the path the outcome depends on the platform.
OpenOutcomes(p) ==
  IF ~hw[p] THEN {"raise"}
  ELSE IF OpenHandleOn(p) THEN {"ok", "raise"}
  ELSE {"ok"}

\* Serial.close(): closes; on a stale handle it may raise, is_open unchanged.
CloseOutcomes(c) == IF conns[c].stale THEN {"ok", "raise"} ELSE {"ok"}

Closed(cs, c, how) ==
  IF how = "ok" THEN [cs EXCEPT ![c].is_open = FALSE, ![c].stale = FALSE] ELSE cs

\* Text of the exception a serial operation raises.
ExcText(e) ==
  CASE e = "AccessDenied" -> "Access is denied"
    [] e = "IOError" -> "Input/output error"
    [] e = "PortNotOpen" -> "Attempting to use a port that is not open"
    [] OTHER -> "other"

\* Exceptions the serial operations of a read can raise on connection c.
SerialExc(c) ==
  IF ~conns[c].is_open THEN {"PortNotOpen"}
  ELSE IF conns[c].stale THEN {"AccessDenied", "IOError"}
  ELSE {}


\* ----------------------------------------------------------------- drivers
Reading(value, unit, status, detail) ==
  [value |-> value, unit |-> unit, status |-> status, detail |-> detail]

Outcome(d, e, w) == [data |-> d, exc |-> e, issued |-> w]

\* PfeifferGauge.read_data: one command (parameter 740); a decoded line gives
\* OK, the deadline gives Timeout, any exception gives "Error: <text>".
GaugeRead(c) ==
  IF SerialExc(c) # {}
  THEN { Outcome(Reading("none", "mbar", "Error: ", ExcText(e)), e, <<>>) :
           e \in SerialExc(c) }
  ELSE { Outcome(Reading("num", "mbar", "OK", ""), "none", <<740>>),
         Outcome(Reading("none", "mbar", "Timeout", ""), "none", <<740>>),
         Outcome(Reading("none", "mbar", "Error: ", ExcText("Other")),
                 "Other", <<740>>) }

\* PfeifferTurboPump.read_data: one command (parameter 309), one read attempt.
PumpRead(c) ==
  IF SerialExc(c) # {}
  THEN { Outcome(Reading("none", "Hz", "Error: ", ExcText(e)), e, <<>>) :
           e \in SerialExc(c) }
  ELSE { Outcome(Reading("num", "Hz", "OK", ""), "none", <<309>>),
         Outcome(Reading("none", "Hz", "Bad Data: ", "payload"), "none", <<309>>),
         Outcome(Reading("none", "Hz", "Bad Packet", ""), "none", <<309>>),
         Outcome(Reading("none", "Hz", "No Data", ""), "none", <<309>>) }

\* KeithleyMeter.read_data: every exception gives the bare status "Error".
KeithleyRead(c) ==
  IF SerialExc(c) # {}
  THEN { Outcome(Reading("none", "A", "Error", ""), e, <<>>) :
           e \in SerialExc(c) }
  ELSE { Outcome(Reading("num", "A", "OK", ""), "none", <<>>),
         Outcome(Reading("none", "A", "Error", ""), "Other", <<>>) }

\* device.read_data(): dispatch on the device's class.
read_data(k, c) ==
  CASE k = "PfeifferGauge" -> GaugeRead(c)
    [] k = "PfeifferTurboPump" -> PumpRead(c)
    [] OTHER -> KeithleyRead(c)

\* The readings one read_data() call returns: the one dict.
Readings(d) == <<d>>

\* needle in str(status)
InStatus(needle, d) == d.detail = needle

\* Variant of the disconnect test that knows the Windows text only.
IsDisconnectAccessOnly(d) == InStatus("Access is denied", d)

\* The poll loop's test for permission errors / disconnects.
IsDisconnect(d) ==
  InStatus("Access is denied", d) \/ InStatus("Input/output error", d)

\* Texts of the transport-level disconnect exceptions.
FaultTexts == {ExcText("AccessDenied"), ExcText("IOError")}

\* --------------------------------------------------------------- poll loop
\* End of one iteration of `for device in devices`.
AdvancePc(i) == IF i < Len(devices) THEN "read" ELSE "sleep"
AdvanceIdx(i) == IF i < Len(devices) THEN i + 1 ELSE i

\* Variant of the handler that gives up the sweep.
OnErrorAbortSweep(i) == "sleep"

\* Variant of the handler that ends the program.
OnErrorExit(i) == "exit"

\* The handler of the per-device try block: report, go on with the loop.
OnErrorPc(i) == AdvancePc(i)

\* Variant of the forwarding test that lets every reading through.
HasValueAlways(d) == TRUE

\* The poll loop's test before forwarding to the sink.
HasValue(d) == d.value # "none"

\* InfluxLogger.log_reading: skips a reading without value; a failed write
\* is reported and swallowed.
log_reading(name, d, up) ==
  [device |-> name, value |-> d.value,
   written |-> (d.value # "none" /\ up)]

Init ==
  /\ pc = "db"
  /\ drv = NoDrv
  /\ kind \in [Names -> Kinds]
  /\ com \in Wirings
  /\ devices = <<>>
  /\ conns = <<>>
  /\ hw = [p \in Ports |-> TRUE]
  /\ unplugs = 0
  /\ idx = 1
  /\ data = NoData
  /\ exc = "none"
  /\ rec = NoRec
  /\ closed_ports = {}
  /\ closeCalls = <<>>
  /\ seen = Unseen
  /\ cycleErr = FALSE
  /\ sink = NoCall
  /\ issued = <<>>
  /\ pending = 0

\* The values of one iteration are dead once the iteration ends.
EndIteration ==
  /\ data' = NoData
  /\ exc' = "none"
  /\ issued' = <<>>
  /\ sink' = NoCall
  /\ rec' = NoRec

\* db = InfluxLogger(...): on an exception the program reports and exits.
ConnectDb ==
  /\ pc = "db"
  /\ \E ok \in BOOLEAN : pc' = IF ok THEN "open" ELSE "exit_db"
  /\ UNCHANGED <<kind, com, devices, conns, hw, unplugs, idx, data, exc, rec,
                 closed_ports, closeCalls, seen, cycleErr, sink, issued, pending>>
  /\ UNCHANGED drv

\* The bus addresses of the three wiring blocks of monitor.py.
AddressOf == <<3, 5, 1>>

\* One wiring block of monitor.py: open the port, append the device.
OpenBlock ==
  /\ pc = "open"
  /\ \E how \in OpenOutcomes(com[idx]) :
       IF how = "ok"
       THEN /\ conns' = Append(conns, NewConn(com[idx], BAUD))
            /\ devices' = Append(devices, [name |-> idx, ser |-> Len(conns) + 1,
                                           address |-> AddressOf[idx]])
            /\ pc' = IF idx = NumDevices THEN "read" ELSE "open"
            /\ idx' = IF idx = NumDevices THEN 1 ELSE idx + 1
       ELSE /\ pc' = "exit"
            /\ UNCHANGED <<conns, devices, idx>>
  /\ UNCHANGED <<kind, com, hw, unplugs, data, exc, rec, closed_ports,
                 closeCalls, seen, cycleErr, sink, issued, pending>>
  /\ UNCHANGED drv

\* data = device.read_data()
ReadDevice ==
  /\ pc = "read"
  /\ LET dev == devices[idx] IN
     \E o \in read_data(kind[dev.name], dev.ser) :
       /\ data' = o.data
       /\ exc' = o.exc
       /\ issued' = o.issued
       /\ seen' = [seen EXCEPT ![dev.name] =
                     IF o.data.value = "none" THEN "done" ELSE "value"]
       /\ cycleErr' = (cycleErr \/ o.data.value = "none")
       /\ pending' = IF o.data.detail \in FaultTexts THEN dev.name ELSE pending
  /\ pc' = "forward"
  /\ UNCHANGED <<kind, com, devices, conns, hw, unplugs, idx, rec,
                 closed_ports, closeCalls, sink>>
  /\ UNCHANGED drv

\* if data.get('value') is not None: db.log_reading(...); print(...)
\* The sink client or the console may raise: the handler takes over.
Forward ==
  /\ pc = "forward"
  /\ IF HasValue(data)
     THEN /\ \E up \in BOOLEAN : sink' = log_reading(devices[idx].name, data, up)
          /\ seen' = [seen EXCEPT ![devices[idx].name] = "done"]
          /\ \E raised \in BOOLEAN : pc' = IF raised THEN "except" ELSE "classify"
     ELSE /\ pc' = "classify"
          /\ UNCHANGED <<sink, seen>>
  /\ UNCHANGED <<kind, com, devices, conns, hw, unplugs, idx, data, exc, rec,
                 closed_ports, closeCalls, cycleErr, issued, pending>>
  /\ UNCHANGED drv

\* except Exception as e: print(...)
Except ==
  /\ pc = "except"
  /\ pc' = OnErrorPc(idx)
  /\ idx' = AdvanceIdx(idx)
  /\ EndIteration
  /\ UNCHANGED <<kind, com, devices, conns, hw, unplugs, closed_ports,
                 closeCalls, seen, cycleErr, pending>>
  /\ UNCHANGED drv

\* The disconnect test; on a match reconnect_device is entered and captures
\* the dead connection, its port and its baud rate.
Classify ==
  /\ pc = "classify"
  /\ IF IsDisconnect(data)
     THEN /\ rec' = [crashed |-> devices[idx].name,
                     port |-> conns[devices[idx].ser].port,
                     baud |-> conns[devices[idx].ser].baudrate,
                     dead |-> devices[idx].ser, new |-> 0, tried |-> FALSE]
          /\ pc' = "r_close"
          /\ UNCHANGED <<idx, data, exc, issued, sink>>
     ELSE /\ pc' = AdvancePc(idx)
          /\ idx' = AdvanceIdx(idx)
          /\ EndIteration
  /\ UNCHANGED <<kind, com, devices, conns, hw, unplugs,
                 closed_ports, closeCalls, seen, cycleErr, pending>>
  /\ UNCHANGED drv

\* time.sleep(2), then the next sweep.
Sleep ==
  /\ pc = "sleep"
  /\ pc' = "read"
  /\ idx' = 1
  /\ seen' = Unseen
  /\ cycleErr' = FALSE
  /\ UNCHANGED <<kind, com, devices, conns, hw, unplugs, data, exc, rec,
                 closed_ports, closeCalls, sink, issued, pending>>
  /\ UNCHANGED drv

\* -------------------------------------------------------- reconnect_device
\* Step 2: close the dead connection; any exception is swallowed.
RecClose ==
  /\ pc = "r_close"
  /\ IF conns[rec.dead].is_open
     THEN \E how \in CloseOutcomes(rec.dead) : conns' = Closed(conns, rec.dead, how)
     ELSE conns' = conns
  /\ rec' = [rec EXCEPT !.tried = conns[rec.dead].is_open]
  /\ pc' = "r_wait"
  /\ UNCHANGED <<kind, com, devices, hw, unplugs, idx, data, exc,
                 closed_ports, closeCalls, seen, cycleErr, sink, issued, pending>>
  /\ UNCHANGED drv

\* Step 3: time.sleep(3)
RecWait ==
  /\ pc = "r_wait"
  /\ pc' = "r_open"
  /\ UNCHANGED <<kind, com, devices, conns, hw, unplugs, idx, data, exc, rec,
                 closed_ports, closeCalls, seen, cycleErr, sink, issued, pending>>
  /\ UNCHANGED drv

\* Variant of step 5 that rebinds every device, whatever its port.
RebindEvery(devs, port, new_conn) ==
  [i \in 1..Len(devs) |-> [devs[i] EXCEPT !.ser = new_conn]]

\* Variant of step 5 that rebinds the crashed device only.
RebindCrashedOnly(devs, port, new_conn) ==
  [i \in 1..Len(devs) |->
     IF devs[i].name = rec.crashed
     THEN [devs[i] EXCEPT !.ser = new_conn]
     ELSE devs[i]]

\* Step 5: every device whose connection has the recovered port gets new_conn.
Rebind(devs, port, new_conn) ==
  [i \in 1..Len(devs) |->
     IF conns[devs[i].ser].port = port
     THEN [devs[i] EXCEPT !.ser = new_conn]
     ELSE devs[i]]

\* Step 4: reopen on the captured port and baud; a failure returns to the
\* poll loop, a success goes on to step 5.
RecOpen ==
  /\ pc = "r_open"
  /\ \E how \in OpenOutcomes(rec.port) :
       IF how = "ok"
       THEN /\ conns' = Append(conns, NewConn(rec.port, rec.baud))
            /\ rec' = [rec EXCEPT !.new = Len(conns) + 1]
            /\ pc' = "r_rebind"
            /\ UNCHANGED <<idx, pending, data, exc, issued, sink>>
       ELSE /\ pending' = IF pending = rec.crashed THEN 0 ELSE pending
            /\ pc' = AdvancePc(idx)
            /\ idx' = AdvanceIdx(idx)
            /\ EndIteration
            /\ conns' = conns
  /\ UNCHANGED <<kind, com, devices, hw, unplugs,
                 closed_ports, closeCalls, seen, cycleErr>>
  /\ UNCHANGED drv

RecRebind ==
  /\ pc = "r_rebind"
  /\ devices' = Rebind(devices, rec.port, rec.new)
  /\ pc' = "r_return"
  /\ UNCHANGED <<kind, com, conns, hw, unplugs, idx, data, exc, rec,
                 closed_ports, closeCalls, seen, cycleErr, sink, issued, pending>>
  /\ UNCHANGED drv

\* reconnect_device returns after a successful rebind.
RecReturn ==
  /\ pc = "r_return"
  /\ pending' = IF pending = rec.crashed THEN 0 ELSE pending
  /\ pc' = AdvancePc(idx)
  /\ idx' = AdvanceIdx(idx)
  /\ EndIteration
  /\ UNCHANGED <<kind, com, devices, conns, hw, unplugs,
                 closed_ports, closeCalls, seen, cycleErr>>
  /\ UNCHANGED drv

\* ---------------------------------------------------------------- shutdown
Polling ==
  {"read", "forward", "except", "classify", "r_wait", "r_open", "r_rebind",
   "r_return", "sleep"}

\* KeyboardInterrupt while polling: the handler of the outer try starts.
Interrupt ==
  /\ pc \in Polling
  /\ pc' = "stop"
  /\ idx' = 1
  /\ closed_ports' = {}
  /\ closeCalls' = [c \in 1..Len(conns) |-> 0]
  /\ EndIteration
  /\ seen' = Unseen
  /\ cycleErr' = FALSE
  /\ pending' = 0
  /\ UNCHANGED <<kind, com, devices, conns, hw, unplugs>>
  /\ UNCHANGED drv

\* KeyboardInterrupt inside the try block around close(): the bare except
\* swallows it and recovery goes on; the close may or may not have run.
InterruptSwallowed ==
  /\ pc = "r_close"
  /\ \/ /\ conns' = conns
        /\ rec' = rec
     \/ /\ conns[rec.dead].is_open
        /\ conns' = Closed(conns, rec.dead, "ok")
        /\ rec' = [rec EXCEPT !.tried = TRUE]
  /\ pc' = "r_wait"
  /\ UNCHANGED <<kind, com, devices, hw, unplugs, idx, data, exc,
                 closed_ports, closeCalls, seen, cycleErr, sink, issued, pending>>
  /\ UNCHANGED drv

\* Whether the handler remembers the object after this device's turn.
Remember(cp, c, how) == IF how = "ok" THEN cp \cup {c} ELSE cp

\* One turn of the shutdown handler's loop over `devices`.
StopDevice ==
  /\ pc = "stop"
  /\ LET c == devices[idx].ser IN
     IF c \notin closed_ports
     THEN IF conns[c].is_open
          THEN \E how \in CloseOutcomes(c) :
                 /\ conns' = Closed(conns, c, how)
                 /\ closeCalls' = [closeCalls EXCEPT ![c] = @ + 1]
                 /\ closed_ports' = Remember(closed_ports, c, how)
          ELSE /\ closed_ports' = closed_ports \cup {c}
               /\ UNCHANGED <<conns, closeCalls>>
     ELSE UNCHANGED <<conns, closeCalls, closed_ports>>
  /\ pc' = IF idx < Len(devices) THEN "stop" ELSE "done"
  /\ idx' = IF idx < Len(devices) THEN idx + 1 ELSE idx
  /\ UNCHANGED <<kind, com, devices, hw, unplugs, data, exc, rec,
                 seen, cycleErr, sink, issued, pending>>
  /\ UNCHANGED drv

\* ------------------------------------------------------------- environment
\* The positions at which the program next looks at the hardware: an
\* environment step taken earlier commutes with the program's steps up to
\* there, so it is taken there.
Observing == {"open", "read", "r_close", "r_open", "stop"}

\* Only the ports some device is wired to matter to the program.
WiredPorts == {com[n] : n \in Names}

\* The USB device of port p disappears: every open handle on it goes stale.
Unplug ==
  /\ pc \in Observing
  /\ unplugs < MaxUnplugs
  /\ \E p \in WiredPorts :
       /\ hw[p]
       /\ hw' = [hw EXCEPT ![p] = FALSE]
       /\ conns' = [c \in 1..Len(conns) |->
                      IF conns[c].port = p /\ conns[c].is_open
                      THEN [conns[c] EXCEPT !.stale = TRUE]
                      ELSE conns[c]]
  /\ unplugs' = unplugs + 1
  /\ UNCHANGED <<pc, kind, com, devices, idx, data, exc, rec, closed_ports,
                 closeCalls, seen, cycleErr, sink, issued, pending>>
  /\ UNCHANGED drv

\* The USB device of port p is enumerated again.
Replug ==
  /\ pc \in Observing
  /\ \E p \in Ports :
       /\ ~hw[p]
       /\ hw' = [hw EXCEPT ![p] = TRUE]
  /\ UNCHANGED <<pc, kind, com, devices, conns, unplugs, idx, data, exc, rec,
                 closed_ports, closeCalls, seen, cycleErr, sink, issued, pending>>
  /\ UNCHANGED drv

Next ==
  \/ ConnectDb
  \/ OpenBlock
  \/ ReadDevice
  \/ Forward
  \/ Except
  \/ Classify
  \/ Sleep
  \/ RecClose
  \/ RecWait
  \/ RecOpen
  \/ RecRebind
  \/ RecReturn
  \/ Interrupt
  \/ InterruptSwallowed
  \/ StopDevice
  \/ Unplug
  \/ Replug

Spec == Init /\ [][Next]_vars

\* ---------------------------------------------------------------- wire text
\* Text is a sequence of one-character strings.
DigitChars == <<"0", "1", "2", "3", "4", "5", "6", "7", "8", "9">>
IsDigitChar(ch) == \E k \in 1..10 : DigitChars[k] = ch
DigitVal(ch) == (CHOOSE k \in 1..10 : DigitChars[k] = ch) - 1

\* ord(c) for the characters that occur on the wire.
Ord(ch) ==
  CASE IsDigitChar(ch) -> 48 + DigitVal(ch)
    [] ch = "\r" -> 13
    [] ch = " " -> 32
    [] ch = "+" -> 43
    [] ch = "," -> 44
    [] ch = "-" -> 45
    [] ch = "." -> 46
    [] ch = "=" -> 61
    [] ch = "?" -> 63
    [] ch = "D" -> 68
    [] ch = "E" -> 69
    [] ch = "F" -> 70
    [] ch = "N" -> 78
    [] ch = "O" -> 79
    [] ch = "_" -> 95

\* str(n) for n >= 0.
RECURSIVE Dec(_)
Dec(n) == IF n < 10 THEN <<DigitChars[n + 1]>>
          ELSE Dec(n \div 10) \o <<DigitChars[(n % 10) + 1]>>

\* f"{n:03d}": at least three digits, zero-padded on the left.
Pad3(n) ==
  CASE n < 10 -> <<"0", "0">> \o Dec(n)
    [] n >= 10 /\ n < 100 -> <<"0">> \o Dec(n)
    [] OTHER -> Dec(n)

RECURSIVE OrdSum(_)
OrdSum(s) == IF s = <<>> THEN 0 ELSE Ord(Head(s)) + OrdSum(Tail(s))

\* calculate_checksum with a modulus other than 256.
calculate_checksum_mod255(cmd) == OrdSum(cmd) % 255

\* calculate_checksum(cmd): sum(ord(c) for c in cmd) % 256
calculate_checksum(cmd) == OrdSum(cmd) % 256

\* cmd = f"{address:03d}00{param:03d}02=?"
Command(address, param) ==
  Pad3(address) \o <<"0", "0">> \o Pad3(param) \o <<"0", "2", "=", "?">>

\* full_cmd = f"{cmd}{chk:03d}\r"
Frame(address, param) ==
  LET cmd == Command(address, param)
  IN cmd \o Pad3(calculate_checksum(cmd)) \o <<"\r">>

\* s[a:b] with a >= 0 and b counted from the end when negative.
Slice(s, a, b) ==
  LET stop == IF b < 0 THEN Len(s) + b ELSE IF b > Len(s) THEN Len(s) ELSE b
  IN IF a >= stop THEN <<>> ELSE SubSeq(s, a + 1, stop)

Whitespace == {" ", "\r", "\n", "\t"}

RECURSIVE LStrip(_)
LStrip(s) ==
  IF s # <<>> /\ Head(s) \in Whitespace THEN LStrip(Tail(s)) ELSE s

RECURSIVE RStrip(_)
RStrip(s) ==
  IF s # <<>> /\ s[Len(s)] \in Whitespace
  THEN RStrip(SubSeq(s, 1, Len(s) - 1)) ELSE s

\* str.strip()
Strip(s) == RStrip(LStrip(s))

\* str.startswith(prefix)
StartsWith(s, prefix) ==
  Len(s) >= Len(prefix) /\ SubSeq(s, 1, Len(prefix)) = prefix

\* str.isdigit(): not empty and digits only.
isdigit(s) == s # <<>> /\ \A k \in 1..Len(s) : IsDigitChar(s[k])

\* ch in s
Contains(s, ch) == \E k \in 1..Len(s) : s[k] = ch

\* int(s) for a text of digits.
RECURSIVE int(_)
int(s) ==
  IF s = <<>> THEN 0
  ELSE 10 * int(SubSeq(s, 1, Len(s) - 1)) + DigitVal(s[Len(s)])

\* ------------------------------------------------------------ driver detail
\* A value is None or the number a driver decoded: <<m, e>> stands for
\* m/1000 * 10^e (gauge), <<n>> for the integer n (pump), <<m, e>> for
\* m * 10^e (meter).
None == <<>>
NoResult == Reading(None, "", "", <<>>)

\* The exception path of a read_data: the status carries str(e).
ErrorReading(unit, e) == Reading(None, unit, "Error: ", <<ExcText(e)>>)

\* Variant of the exponent with the offset of another gauge family.
GaugeExponent23(data_str) == int(Slice(data_str, 4, Len(data_str))) - 23

\* exponent = int(data_str[4:]) - 20
GaugeExponent(data_str) == int(Slice(data_str, 4, Len(data_str))) - 20

\* float(data_str[:4]), in thousandths after the division by 1000.0
GaugeMantissa(data_str) == int(Slice(data_str, 0, 4))

\* Variant of the filter that lets everything through.
IsNoiseNever(data_str) == FALSE

\* FILTER: "?" in data_str or len(data_str) < 6
IsNoise(data_str) == Contains(data_str, "?") \/ Len(data_str) < 6

\* Variant of the gauge's prefix that stops after the address.
GaugePrefixAddressOnly(address, param) == Pad3(address)

\* f"{self.address:03d}10{param:03d}"
GaugePrefix(address, param) == Pad3(address) \o <<"1", "0">> \o Pad3(param)

\* The body of the gauge's while loop for one received line: either the
\* loop goes on (ret FALSE) or read_data returns a reading.
GaugeLineBody(address, param, raw) ==
  LET line == Strip(raw)
      data_str == Strip(Slice(line, 10, -3))
      go_on == [ret |-> FALSE, result |-> NoResult]
      Return(r) == [ret |-> TRUE, result |-> r]
  IN IF ~StartsWith(line, GaugePrefix(address, param)) THEN go_on
     ELSE IF IsNoise(data_str) THEN go_on
     ELSE IF isdigit(data_str)
       THEN IF Slice(data_str, 4, Len(data_str)) = <<>>
                 \/ GaugeExponent(data_str) > 308
            THEN Return(ErrorReading("mbar", "Other"))
            ELSE Return(Reading(<<GaugeMantissa(data_str),
                                  GaugeExponent(data_str)>>, "mbar", "OK", <<>>))
     ELSE IF data_str = <<"9", "9", "9", "9", "9", "9">>
       THEN Return(Reading(None, "mbar", "Over-range", <<>>))
     ELSE IF data_str = <<"0", "0", "0", "0", "0", "0">>
       THEN Return(Reading(None, "mbar", "Low-vac", <<>>))
     ELSE go_on

\* Variant of the pump's decode that keeps the payload as the value.
PumpDecodeKeepsBadData(address, raw) ==
  LET response == Strip(raw)
      payload == Strip(Slice(response, 10, -3))
  IN IF Len(response) > 10 /\ StartsWith(response, Pad3(address))
     THEN IF isdigit(payload)
          THEN Reading(<<int(payload)>>, "Hz", "OK", <<>>)
          ELSE Reading(<<Len(payload)>>, "Hz", "Bad Data: ", payload)
     ELSE Reading(None, "Hz", "Bad Packet", <<>>)

\* The pump's decode of the one line it reads.
PumpDecode(address, raw) ==
  LET response == Strip(raw)
      payload == Strip(Slice(response, 10, -3))
  IN IF Len(response) > 10 /\ StartsWith(response, Pad3(address))
     THEN IF isdigit(payload)
          THEN Reading(<<int(payload)>>, "Hz", "OK", <<>>)
          ELSE Reading(None, "Hz", "Bad Data: ", payload)
     ELSE Reading(None, "Hz", "Bad Packet", <<>>)

RECURSIVE LeadDigits(_)
LeadDigits(s) ==
  IF s # <<>> /\ IsDigitChar(Head(s)) THEN 1 + LeadDigits(Tail(s)) ELSE 0

Drop(s, n) == SubSeq(s, n + 1, Len(s))
Signed(s) == s # <<>> /\ Head(s) \in {"+", "-"}
SignOf(s) == IF s # <<>> /\ Head(s) = "-" THEN -1 ELSE 1

\* float(val) for the texts the meter sends: sign, digits, fraction,
\* exponent; ok FALSE stands for ValueError.
ParseFloat(val) ==
  LET tok == Strip(val)
      body == IF Signed(tok) THEN Tail(tok) ELSE tok
      n1 == LeadDigits(body)
      rest1 == Drop(body, n1)
      point == rest1 # <<>> /\ Head(rest1) = "."
      frac == IF point THEN Tail(rest1) ELSE rest1
      n2 == IF point THEN LeadDigits(frac) ELSE 0
      rest2 == Drop(frac, n2)
      expo == IF rest2 # <<>> /\ Head(rest2) = "E" THEN Tail(rest2) ELSE <<>>
      edig == IF Signed(expo) THEN Tail(expo) ELSE expo
      ok == /\ n1 >= 1
            /\ \/ rest2 = <<>>
               \/ /\ Head(rest2) = "E"
                  /\ isdigit(edig)
  IN [ok |-> ok,
      mant |-> SignOf(tok) * int(SubSeq(body, 1, n1) \o SubSeq(frac, 1, n2)),
      exp |-> (IF ok /\ rest2 # <<>> THEN SignOf(expo) * int(edig) ELSE 0) - n2]

\* raw.split(',')[0]
RECURSIVE FirstField(_)
FirstField(s) ==
  IF s = <<>> \/ Head(s) = "," THEN <<>> ELSE <<Head(s)>> \o FirstField(Tail(s))

\* The meter's decode of the one line it reads.
KeithleyDecode(line) ==
  LET f == ParseFloat(FirstField(Strip(line)))
  IN IF f.ok THEN Reading(<<f.mant, f.exp>>, "A", "OK", <<>>)
     ELSE Reading(None, "A", "Error", <<>>)

\* ------------------------------------------------------------- driver calls
\* One read_data call, or one frame construction, looked at on its own.
Addresses == 0..999
ParamSet == {0, 7, 42, 309, 740, 999}
GaugeParam == 740
PumpParam == 309
GaugeAddresses == {3}
PumpAddresses == {5, 1}
Deadline == 2
DrvExc == {"AccessDenied", "IOError", "PortNotOpen", "Other"}

\* f"{n:02d}"
Pad2(n) == IF n < 10 THEN <<"0">> \o Dec(n) ELSE Dec(n)

Payloads ==
  { <<"1", "0", "0", "0", "2", "0">>, <<"0", "5", "0", "0", "1", "8">>,
    <<"1", "2", "3", "0", "0", "6">>, <<"0", "0", "0", "8", "2", "0">>,
    <<"9", "9", "9", "9", "9", "9">>, <<"0", "0", "0", "0", "0", "0">>,
    <<"=", "?">>, <<"?">>, <<"7">>, <<>>, <<"1", "2", "3", "4", "5">>,
    <<"1", "0", "0", "0", "2", "0", "0">>, <<"N", "O", "_", "D", "E", "F">> }

\* The lines a bus with the device at address a can deliver: replies and
\* echoes, for this address or its neighbour, for either parameter.
Sent(a) ==
  [addr : {a, a + 1}, action : {<<"1", "0">>, <<"0", "0">>},
   param : {GaugeParam, PumpParam}, payload : Payloads]

\* The text of a line: address, action, parameter, length, payload,
\* checksum, carriage return.
Resp(l) ==
  LET body == Pad3(l.addr) \o l.action \o Pad3(l.param)
                \o Pad2(Len(l.payload)) \o l.payload
  IN body \o Pad3(calculate_checksum(body)) \o <<"\r">>

KeithleyLines ==
  { <<"+", "1", ".", "2", "3", "E", "-", "0", "9", ",", "+", "0", "\r">>,
    <<"-", "5", "\r">>, <<"4", ".", "5", "\r">>, <<"7", "E", "2", "\r">>,
    <<"N", "O", "\r">>, <<",", "1", "\r">>, <<"1", "E", "\r">>, <<>> }

DriverInit ==
  /\ drv = NoDrv
  /\ pc = "driver"
  /\ kind = [n \in Names |-> "PfeifferGauge"]
  /\ com = [n \in Names |-> "ttyUSB0"]
  /\ devices = <<>>
  /\ conns = <<>>
  /\ hw = [p \in Ports |-> TRUE]
  /\ unplugs = 0
  /\ idx = 1
  /\ data = NoData
  /\ exc = "none"
  /\ rec = NoRec
  /\ closed_ports = {}
  /\ closeCalls = <<>>
  /\ seen = Unseen
  /\ cycleErr = FALSE
  /\ sink = NoCall
  /\ issued = <<>>
  /\ pending = 0

\* cmd, chk and full_cmd of a read_data, for any address and parameter.
EncodeFrame ==
  /\ drv.op = "none"
  /\ \E a \in Addresses, p \in ParamSet :
       drv' = [NoDrv EXCEPT !.op = "encode", !.at = "done", !.address = a,
                            !.param = p, !.frame = Frame(a, p)]
  /\ UNCHANGED progvars

\* PfeifferGauge.read_data up to the loop: reset_input_buffer and write,
\* either of which may raise.
GaugeCall ==
  /\ drv.op = "none"
  /\ \E a \in GaugeAddresses :
       LET call == [NoDrv EXCEPT !.op = "gauge", !.address = a,
                                 !.param = GaugeParam,
                                 !.frame = Frame(a, GaugeParam)]
       IN \/ drv' = [call EXCEPT !.at = "loop"]
          \/ \E e \in DrvExc :
               drv' = [call EXCEPT !.at = "done",
                                   !.result = ErrorReading("mbar", e)]
  /\ UNCHANGED progvars

\* Variant of the loop test without the deadline.
InWindowAlways(elapsed) == TRUE

\* while (time.time() - start_time) < 2.0
InWindow(elapsed) == elapsed < Deadline

\* The clock advances while the gauge loop runs.
GaugeTick ==
  /\ drv.op = "gauge" /\ drv.at = "loop"
  /\ drv.elapsed < Deadline
  /\ drv' = [drv EXCEPT !.elapsed = @ + 1]
  /\ UNCHANGED progvars

\* One iteration of the loop with input waiting: in_waiting or read_until
\* raises, or a line is read and goes through the loop body.
GaugeLine ==
  /\ drv.op = "gauge" /\ drv.at = "loop"
  /\ InWindow(drv.elapsed)
  /\ drv.lines < MaxLines
  /\ \/ \E e \in DrvExc :
          drv' = [drv EXCEPT !.at = "done", !.result = ErrorReading("mbar", e)]
     \/ \E l \in Sent(drv.address) :
          LET b == GaugeLineBody(drv.address, drv.param, Resp(l))
          IN drv' = [drv EXCEPT !.text = Resp(l), !.prev = drv.line,
                                !.line = l, !.lines = @ + 1,
                                !.at = IF b.ret THEN "done" ELSE "loop",
                                !.result = b.result]
  /\ UNCHANGED progvars

\* The loop test fails: return Timeout.
GaugeDeadline ==
  /\ drv.op = "gauge" /\ drv.at = "loop"
  /\ ~InWindow(drv.elapsed)
  /\ drv' = [drv EXCEPT !.at = "done",
                        !.result = Reading(None, "mbar", "Timeout", <<>>)]
  /\ UNCHANGED progvars

\* PfeifferTurboPump.read_data: a serial call raises, nothing is waiting
\* after the pause, or the one line read is decoded.
PumpCall ==
  /\ drv.op = "none"
  /\ \E a \in PumpAddresses :
       LET call == [NoDrv EXCEPT !.op = "pump", !.at = "done", !.address = a,
                                 !.param = PumpParam,
                                 !.frame = Frame(a, PumpParam)]
       IN \/ \E e \in DrvExc :
               drv' = [call EXCEPT !.result = ErrorReading("Hz", e)]
          \/ drv' = [call EXCEPT !.result = Reading(None, "Hz", "No Data", <<>>)]
          \/ \E l \in Sent(a) :
               drv' = [call EXCEPT !.text = Resp(l), !.line = l, !.lines = 1,
                                   !.result = PumpDecode(a, Resp(l))]
  /\ UNCHANGED progvars

\* KeithleyMeter.read_data: a serial call raises, or the one line read
\* (empty after the read timeout) is decoded.
KeithleyCall ==
  /\ drv.op = "none"
  /\ LET call == [NoDrv EXCEPT !.op = "keithley", !.at = "done"]
     IN \/ drv' = [call EXCEPT !.result = Reading(None, "A", "Error", <<>>)]
        \/ \E raw \in KeithleyLines :
             drv' = [call EXCEPT !.text = raw, !.lines = 1,
                                 !.result = KeithleyDecode(raw)]
  /\ UNCHANGED progvars

\* Six-digit payloads over a few digits, the two sentinels among them.
DigitPayloads == [1..6 -> {"0", "1", "5", "9"}]

\* The gauge's loop body applied to one reply to its own request.
GaugeBody ==
  /\ drv.op = "none"
  /\ \E a \in GaugeAddresses, payload \in DigitPayloads :
       LET l == [addr |-> a, action |-> <<"1", "0">>, param |-> GaugeParam,
                 payload |-> payload]
           b == GaugeLineBody(a, GaugeParam, Resp(l))
       IN drv' = [NoDrv EXCEPT !.op = "body", !.address = a,
                               !.param = GaugeParam, !.text = Resp(l),
                               !.line = l, !.lines = 1,
                               !.at = IF b.ret THEN "done" ELSE "loop",
                               !.result = b.result]
  /\ UNCHANGED progvars

\* The call has returned to the poll loop, which goes on; the device is
\* read again in the next sweep.
DrvReturn ==
  /\ drv.at = "done"
  /\ drv' = NoDrv
  /\ UNCHANGED progvars

DriverNext ==
  \/ EncodeFrame
  \/ GaugeCall
  \/ GaugeTick
  \/ GaugeLine
  \/ GaugeDeadline
  \/ GaugeBody
  \/ PumpCall
  \/ KeithleyCall
  \/ DrvReturn

\* The clock advances and the loop test is evaluated again.
DriverSpec ==
  /\ DriverInit
  /\ [][DriverNext]_vars
  /\ WF_vars(GaugeTick)
  /\ WF_vars(GaugeDeadline)

\* ================================================================== claims
DevIdx == 1..Len(devices)
ConnOf(i) == conns[devices[i].ser]
CurKind == kind[devices[idx].name]

\* C1: once reconnect_device has reopened the port and rebound, every device
\* whose connection has the recovered port P references the one new
\* connection object, that object is on port P, and no device references
\* the faulted handle any more.
C1_RecoveryRebindsAll ==
  pc = "r_return" =>
    /\ rec.new = Len(conns)
    /\ rec.new # rec.dead
    /\ conns[rec.new].port = rec.port
    /\ \A i \in DevIdx : ConnOf(i).port = rec.port => devices[i].ser = rec.new
    /\ \A i \in DevIdx : devices[i].name = rec.crashed => devices[i].ser = rec.new
    /\ \A i \in DevIdx : devices[i].ser # rec.dead

\* C1 witness: a recovery has completed with two devices of port P, the
\* crashed one and another one, now on the new connection.
C1_Witness ==
  /\ pc = "r_return"
  /\ \E i, j \in DevIdx :
       /\ i # j
       /\ devices[i].name = rec.crashed
       /\ com[devices[j].name] = rec.port
       /\ devices[i].ser = rec.new
       /\ devices[j].ser = rec.new

\* C2 (as claimed): a device left on the handle that an aborted recovery
\* closed has its fault detected again at its next read, so that recovery
\* is attempted again.
C2_FaultDetectedAgain ==
  (pc = "classify" /\ ~ConnOf(idx).is_open) => IsDisconnect(data)

\* C3: a read whose status indicates IOFault is followed by the recovery of
\* that device before any further read: no read is issued while an IOFault
\* status is unrecovered or while reconnect_device is running, and the
\* sweep ends with no unrecovered IOFault status.
C3_RecoveryBeforeNextRead ==
  /\ pc \in {"read", "sleep"} => (pending = 0 /\ rec = NoRec)
  /\ pc \in {"r_close", "r_wait", "r_open", "r_rebind", "r_return"} =>
       (rec.crashed = devices[idx].name /\ pending = rec.crashed)

\* C3 witness: recovery of a device is running while a later device of the
\* same sweep is still to be read.
C3_Witness ==
  /\ pc = "r_open"
  /\ pending = rec.crashed
  /\ idx < Len(devices)

\* C4 (as claimed): for every driver a permission-denied or I/O error raised
\* during the read is classified as IOFault by the poll loop, and the
\* protocol-level statuses are not.
C4_DisconnectClassified ==
  pc = "classify" =>
    /\ exc \in {"AccessDenied", "IOError"} => IsDisconnect(data)
    /\ data.status \in {"Timeout", "No Data", "Bad Packet", "Bad Data: "} =>
         ~IsDisconnect(data)

\* C5: a sweep that reaches its end has read every device, and every reading
\* with a value has been handed to the sink, whatever the other devices'
\* reads, forwards and recoveries did.
C5_FaultIsolation ==
  /\ pc = "sleep" => \A n \in Names : seen[n] = "done"
  /\ (pc \in {"classify", "except"} /\ data.value # "none") =>
       sink.device = devices[idx].name

\* C5 witness: the last device's reading is forwarded in a sweep in which an
\* earlier device's read returned an error.
C5_Witness ==
  /\ pc = "classify"
  /\ idx = Len(devices)
  /\ cycleErr
  /\ data.value # "none"
  /\ sink.device = devices[idx].name

\* C6 (as claimed): when the shutdown handler has finished, it has called
\* close() exactly once on every connection object that a device references
\* and that was open, however many devices share the object; read with the
\* benefit of the doubt, an object is left open only if that one call failed.
C6_ShutdownClosesOnce ==
  pc = "done" =>
    \A i \in DevIdx :
      /\ closeCalls[devices[i].ser] <= 1
      /\ ConnOf(i).is_open => closeCalls[devices[i].ser] = 1

\* C7: log_reading is called only with a reading that has a value, and a
\* point is written only for such a reading.
C7_NoValuelessReadingAtSink ==
  /\ sink.device # 0 => sink.value # "none"
  /\ sink.written => sink.value # "none"

\* C7 witness: a reading has been written to the sink.
C7_Witness == sink.device # 0 /\ sink.written

\* C8 (as claimed): two wired devices that declare the same port are bound
\* to the same connection object.
C8_DedupByPort ==
  pc = "read" =>
    \A i, j \in DevIdx :
      com[devices[i].name] = com[devices[j].name] =>
        devices[i].ser = devices[j].ser

\* C9 (as claimed): at most one open connection object per port.
C9_OneLivePerPort ==
  \A c, d \in 1..Len(conns) :
    (conns[c].is_open /\ conns[d].is_open /\ conns[c].port = conns[d].port)
      => c = d

\* C10 (as claimed): a TurboPump read issues three commands and returns
\* three readings, frequency/Hz, motor_temp/degC, power_consumption/W.
C10_PumpThreeReadings ==
  (pc = "forward" /\ CurKind = "PfeifferTurboPump" /\ exc = "none") =>
    /\ Len(issued) = 3
    /\ Len(Readings(data)) = 3

\* C14 (as claimed): the shutdown handler starts only between two sweeps,
\* that is from the inter-cycle sleep, never from inside a read, a sink
\* write or a recovery.
C14_CooperativeCancel == [][pc' = "stop" => pc = "sleep"]_vars

\* C18 (as claimed): whenever recovery has opened the new connection, the
\* close of the faulted handle has been attempted before.
C18_CloseBeforeReopen == rec.new # 0 => rec.tried

\* Positions in which the process has ended without the shutdown handler.
Fatal == {"exit", "exit_db"}

\* Positions of the running poll loop, recovery included.
InLoop == Polling \cup {"r_close"}

\* C20 (as claimed): the poll loop is left only for the shutdown handler,
\* and the program ends fatally only from a failed port open at startup.
C20_OnlyPortOpenFatal ==
  [][ /\ (pc \in InLoop /\ pc' \notin InLoop) => pc' = "stop"
      /\ (pc' \in Fatal /\ pc \notin Fatal) => pc = "open" ]_vars

\* C20 (amended): the poll loop is left only for the shutdown handler, and
\* the program ends fatally only at startup, before the first sweep, from a
\* failed database connection or a failed port open.
C20_OnlyStartupFatal ==
  [][ /\ (pc \in InLoop /\ pc' \notin InLoop) => pc' = "stop"
      /\ (pc' \in Fatal /\ pc \notin Fatal) =>
           /\ pc \in {"db", "open"}
           /\ Len(devices) < NumDevices
           /\ seen = Unseen ]_vars

\* C20 witness: a sweep in which a device failed has ended and the loop
\* sleeps before the next sweep.
C20_Witness == pc = "sleep" /\ cycleErr

\* The last line read: what the device put on the wire.
LastLine == drv.line
IsReply(l) ==
  l.addr = drv.address /\ l.action = <<"1", "0">> /\ l.param = drv.param
AllDigits(p) == \A k \in 1..Len(p) : IsDigitChar(p[k])
Num(p, from, to) ==
  IF from > to THEN 0
  ELSE LET F[k \in from..to] ==
             DigitVal(p[k]) + 10 * (IF k = from THEN 0 ELSE F[k - 1])
       IN F[to]
Nines == <<"9", "9", "9", "9", "9", "9">>
Zeros == <<"0", "0", "0", "0", "0", "0">>

\* C11 (as claimed): a reply with payload "999999" gives status Over-range
\* and no value, a reply with payload "000000" gives status Low-vac and no
\* value.
C11_SentinelsDecoded ==
  (drv.op \in {"gauge", "body"} /\ LastLine # NoLine /\ IsReply(LastLine)) =>
    /\ LastLine.payload = Nines =>
         drv.result.status = "Over-range" /\ drv.result.value = None
    /\ LastLine.payload = Zeros =>
         drv.result.status = "Low-vac" /\ drv.result.value = None

\* The frame f for address a and parameter p, with the checksum taken over
\* the first n characters.
FrameShape(f, a, p, n) ==
  /\ Len(f) = 16
  /\ AllDigits(SubSeq(f, 1, 8)) /\ AllDigits(SubSeq(f, 13, 15))
  /\ Num(f, 1, 3) = a
  /\ SubSeq(f, 4, 5) = <<"0", "0">>
  /\ Num(f, 6, 8) = p
  /\ SubSeq(f, 9, 12) = <<"0", "2", "=", "?">>
  /\ Num(f, 13, 15) = OrdSum(SubSeq(f, 1, n)) % 256
  /\ f[16] = "\r"

\* C15 (as claimed): the frame is address, "00", parameter, "02=?", the
\* checksum of the 13 preceding characters, carriage return.
C15_FrameThirteen ==
  drv.frame # <<>> => FrameShape(drv.frame, drv.address, drv.param, 13)

\* C15 (amended): the frame is address, "00", parameter, "02=?", the
\* checksum of the 12 preceding characters, carriage return; every
\* character is fixed by (address, parameter).
C15_FrameTwelve ==
  drv.frame # <<>> => FrameShape(drv.frame, drv.address, drv.param, 12)

\* C15 witness: the frame for address 999 and parameter 0 has been built.
C15_Witness ==
  drv.op = "encode" /\ drv.address = 999 /\ drv.param = 0 /\ drv.frame # <<>>

\* The general rule of C16: a reply with a six-digit payload other than
\* the sentinels is decoded with status OK, mantissa digits 0..3 in
\* thousandths, exponent digits 4..5 minus 20.
SixDigitReply ==
  /\ drv.op \in {"gauge", "body"}
  /\ LastLine # NoLine /\ IsReply(LastLine)
  /\ Len(LastLine.payload) = 6 /\ AllDigits(LastLine.payload)
  /\ LastLine.payload \notin {Nines, Zeros}
DecodedByRule ==
  /\ drv.at = "done"
  /\ drv.result.status = "OK"
  /\ drv.result.value =
       <<Num(LastLine.payload, 1, 4), Num(LastLine.payload, 5, 6) - 20>>

SaidNoise(p) == Contains(p, "?") \/ Len(p) < 2
SixDigits(p) == Len(p) = 6 /\ AllDigits(p) /\ p \notin {Nines, Zeros}

\* C12: a reply whose payload contains "?" or is shorter than 2 characters
\* is discarded: reading it leaves the gauge listening with nothing
\* returned, it never becomes the value of the reading, and a six-digit
\* reply read after it in the same window is decoded and returned.
C12_NoiseDiscarded ==
  /\ [](  (drv.op = "gauge" /\ LastLine # NoLine
           /\ IsReply(LastLine) /\ SaidNoise(LastLine.payload))
          => drv.result.value = None /\ drv.result.status # "OK")
  /\ [][ (drv'.op = "gauge" /\ drv'.lines = drv.lines + 1
          /\ IsReply(drv'.line) /\ SaidNoise(drv'.line.payload))
         => (drv'.at = "loop" /\ drv'.result = NoResult) ]_vars
  /\ [](  (drv.op = "gauge" /\ drv.prev # NoLine
           /\ IsReply(drv.prev) /\ SaidNoise(drv.prev.payload)
           /\ IsReply(LastLine) /\ SixDigits(LastLine.payload))
          => (/\ drv.at = "done"
              /\ drv.result.status = "OK"
              /\ drv.result.value = <<Num(LastLine.payload, 1, 4),
                                      Num(LastLine.payload, 5, 6) - 20>>))

\* C12 witness: the echo payload "=?" was discarded and the reply "123006"
\* read after it has been returned.
C12_Witness ==
  /\ drv.op = "gauge" /\ drv.at = "done"
  /\ IsReply(drv.prev) /\ drv.prev.payload = <<"=", "?">>
  /\ IsReply(LastLine) /\ LastLine.payload = <<"1", "2", "3", "0", "0", "6">>
  /\ drv.result.status = "OK" /\ drv.result.value = <<1230, -14>>

\* C13: whatever a read of any variant returns, it has a value only with
\* status OK.
C13_ValueOnlyWithOK ==
  drv.result.value # None => drv.result.status = "OK"

\* C13 witness: the pump has returned the value 820 with status OK.
C13_Witness ==
  /\ drv.op = "pump" /\ drv.at = "done"
  /\ drv.result.status = "OK" /\ drv.result.value = <<820>>

\* C17 (as claimed): a gauge or pump read returns OK only for a line that
\* begins with the device's address, the response action code and the
\* requested parameter.
C17_OnlyRepliesDecoded ==
  (drv.op \in {"gauge", "pump"} /\ drv.result.status = "OK") =>
    LastLine # NoLine /\ IsReply(LastLine)

\* C19: a gauge read that has entered its loop returns; it returns one
\* reading, final for this sweep; at the deadline the return is Timeout
\* with no value, and Timeout is returned only at the deadline.
C19_GaugeReadTerminates ==
  /\ (drv.op = "gauge" /\ drv.at = "loop") ~> (drv.op = "gauge" /\ drv.at = "done")
  /\ []((drv.op = "gauge" /\ drv.at = "done") => drv.result.status # "")
  /\ []((drv.op = "gauge" /\ drv.at = "loop") => drv.result = NoResult)
  /\ []((drv.op = "gauge" /\ drv.result.status = "Timeout")
          => drv.elapsed = Deadline /\ drv.result.value = None)
  /\ [][ (drv.op = "gauge" /\ drv.at = "loop" /\ drv.elapsed >= Deadline)
         => (drv'.at = "done" /\ drv'.result.status = "Timeout") ]_vars
  /\ [][ drv.at = "done" => drv' = NoDrv ]_vars

\* C19 witness: lines arrived, none was a valid reply, and the read has
\* returned Timeout at the deadline.
C19_Witness ==
  /\ drv.op = "gauge" /\ drv.at = "done"
  /\ drv.lines = MaxLines
  /\ drv.result.status = "Timeout" /\ drv.elapsed = Deadline

\* Positions in which the program has ended.
Ended == {"done", "exit", "exit_db"}

\* C21 (as claimed): when the program has ended, by shutdown or by a
\* startup abort, no connection it opened is still open, and when recovery
\* goes on to reopen, the faulted handle is no longer open.
C21_AllReleased ==
  /\ pc \in Ended => \A c \in 1..Len(conns) : ~conns[c].is_open
  /\ pc \in {"r_wait", "r_open"} => ~conns[rec.dead].is_open

\* Positions inside reconnect_device.
InRecovery == {"r_close", "r_wait", "r_open", "r_rebind"}

\* C22: a step of recovery keeps the device list's length and order and
\* every device's name and address, keeps the connection reference of every
\* device whose connection is on another port than the recovered one, and
\* keeps the whole list when the reopen fails.
C22_RecoveryFrame ==
  [][ (pc \in InRecovery) =>
        ( /\ Len(devices') = Len(devices)
          /\ \A i \in DevIdx :
               /\ devices'[i].name = devices[i].name
               /\ devices'[i].address = devices[i].address
               /\ (ConnOf(i).port # rec.port
                     => devices'[i].ser = devices[i].ser)
          /\ kind' = kind
          /\ ((pc = "r_open" /\ pc' # "r_rebind") => (devices' = devices)) )
    ]_vars

\* C22 witness: recovery has rebound a device to the new connection while
\* another device sits on another port.
C22_Witness ==
  /\ pc = "r_return"
  /\ \E i \in DevIdx : devices[i].ser = rec.new
  /\ \E j \in DevIdx : ConnOf(j).port # rec.port /\ devices[j].ser # rec.new
====
